---- MODULE Spec2Model ----
(***************************************************************************)
(* CGAL Orthtree (Orthtree.h, Orthtree/Traversals.h): the index-based node *)
(* store, split, refine, grade and adjacent_node, as a state machine.      *)
(*                                                                         *)
(* A tree value T is the record of the attribute arrays of one Orthtree:   *)
(*   T.depths[n+1]   m_node_depths[n]                                      *)
(*   T.coords[n+1]   m_node_coordinates[n]   (a sequence of D numbers)     *)
(*   T.parents[n+1]  m_node_parents[n]       (None for an empty optional)  *)
(*   T.children[n+1] m_node_children[n]      (None for an empty optional)  *)
(*   T.side          m_side_per_depth        (one side length per depth)   *)
(*   T.dim           Dimension::value                                      *)
(* Node indices are 0-based as in the source; sequences are 1-based.       *)
(* Node contents (Node_data) are an opaque payload of the traits class and *)
(* are not part of the model.  Depths (std::uint8_t) and coordinates       *)
(* (std::uint32_t) stay far below their ranges at the depths reached.      *)
(*                                                                         *)
(* CGAL_precondition is compiled in or out by the build (checks).  A       *)
(* failed precondition aborts the program when compiled in (err names it   *)
(* and nothing runs afterwards); when compiled out the code that follows   *)
(* it runs.                                                                *)
(***************************************************************************)
EXTENDS Integers, Sequences, FiniteSets, TLC

\* ---------------------------------------------------------------- bounds
\* Largest Dimension::value instantiated.
MaxDim == 3
\* Split and refine are only called while the result has at most MaxBlocks
\* blocks of children and at most MaxNodes nodes.
MaxBlocks == 6
MaxNodes == 21
\* No split predicate asks for nodes deeper than MaxDepth.
MaxDepth == 6
\* Largest k of the uniform predicate "depth(n) < k".
MaxUniform == 2
\* The caller calls split() directly only while the result has at most
\* MaxSplitBlocks blocks of children.
MaxSplitBlocks == 2
\* A call of grade() that would exceed this many nodes is not modelled (no
\* reachable tree comes near it).
GradeCap == 120

\* ------------------------------------------------------------- constants
\* The empty std::optional<Node_index>.
None == -1
\* Side of the root bounding box, in units that every halving divides.
RootSide == 2 ^ (MaxDepth + 2)

\* ------------------------------------------------------------ the state
VARIABLES
  D,                   \* Dimension::value (template parameter)
  checks,              \* TRUE iff CGAL_precondition is compiled in
  m_node_depths,
  m_node_coordinates,
  m_node_parents,
  m_node_children,
  m_side_per_depth,
  err,                 \* "none", or the precondition that aborted the program
  lastOp               \* the operation called last

vars == << D, checks, m_node_depths, m_node_coordinates, m_node_parents,
           m_node_children, m_side_per_depth, err, lastOp >>

\* The tree of the current state.
Self == [ dim      |-> D,
          depths   |-> m_node_depths,
          coords   |-> m_node_coordinates,
          parents  |-> m_node_parents,
          children |-> m_node_children,
          side     |-> m_side_per_depth ]

\* ------------------------------------------------------------- accessors
Degree(T) == 2 ^ T.dim

number_of_nodes(T) == Len(T.depths)

\* the number of blocks of 2^D children allocated so far
number_of_blocks(T) == (Len(T.depths) - 1) \div Degree(T)

NodeIndices(T) == 0 .. (Len(T.depths) - 1)

root == 0

is_root(n) == n = 0

is_leaf(T, n) == T.children[n + 1] = None

depth(T, n) == T.depths[n + 1]

tree_depth(T) == Len(T.side) - 1

global_coordinates(T, n) == T.coords[n + 1]

\* bit a of the number i (std::bitset<D>::operator[])
Bit(i, a) == (i \div (2 ^ a)) % 2

RECURSIVE to_ulong_from(_, _)
to_ulong_from(bits, a) ==
  IF a > Len(bits) THEN 0
  ELSE bits[a] * (2 ^ (a - 1)) + to_ulong_from(bits, a + 1)

\* std::bitset<D>::to_ulong of a sequence of D bits, bit 0 first
to_ulong(bits) == to_ulong_from(bits, 1)

local_coordinates(T, n) ==
  [ a \in 1 .. T.dim |-> global_coordinates(T, n)[a] % 2 ]

parent(T, n) == T.parents[n + 1]

child(T, n, i) == T.children[n + 1] + i

\* A call of child(n, i) with its precondition, in the build chk: the
\* outcomes.  Only !is_leaf(n) is checked; i is not.  On a leaf without the
\* check the empty optional m_node_children[n] is read, which is undefined
\* (any index g may be found in it).
child_call(T, n, i, chk) ==
  IF is_leaf(T, n)
  THEN IF chk THEN { [ err |-> "InvalidChildAccess", index |-> None ] }
       ELSE { [ err |-> "none", index |-> g + i ] : g \in NodeIndices(T) }
  ELSE { [ err |-> "none", index |-> child(T, n, i) ] }

\* the size the callers of split and refine keep the tree within
Fits(T) == number_of_blocks(T) <= MaxBlocks /\ number_of_nodes(T) <= MaxNodes

\* ------------------------------------------------------------- the store
\* Properties::Experimental::Property_container::emplace_group(k): allocates
\* k contiguous new indices at the end of every attribute array and returns
\* the first of them.
emplace_group(T, k) == Len(T.depths)

\* split whose side length table grows at every call
split_block_always_appending(T, n, child_coordinates, child_depth) ==
  LET first == Len(T.depths)
      block == 1 .. Degree(T)
  IN  [ T EXCEPT
          !.children = [ @ EXCEPT ![n + 1] = first ] \o [ i \in block |-> None ],
          !.coords   = @ \o child_coordinates,
          !.depths   = @ \o [ i \in block |-> child_depth ],
          !.parents  = @ \o [ i \in block |-> n ],
          !.side     = Append(T.side, T.side[Len(T.side)] \div 2) ]

\* The assignments of split(n): the new block becomes the children of n, its
\* i-th node gets the coordinates child_coordinates[i], the depth child_depth
\* and the parent n, and the side length table grows by one entry when the
\* children are the first nodes of their depth.
split_block(T, n, child_coordinates, child_depth) ==
  LET first == emplace_group(T, Degree(T))
      block == 1 .. Degree(T)
  IN  [ T EXCEPT
          !.children = [ @ EXCEPT ![n + 1] = first ] \o [ i \in block |-> None ],
          !.coords   = @ \o child_coordinates,
          !.depths   = @ \o [ i \in block |-> child_depth ],
          !.parents  = @ \o [ i \in block |-> n ],
          !.side     = IF depth(T, n) + 1 = Len(T.side)
                       THEN Append(T.side, T.side[Len(T.side)] \div 2)
                       ELSE T.side ]

\* split that leaves the local bit out of the children's coordinates
split_without_local_bit(T, n) ==
  split_block(T, n,
              [ i \in 1 .. Degree(T) |->
                  [ a \in 1 .. T.dim |-> 2 * global_coordinates(T, n)[a] ] ],
              depth(T, n) + 1)

\* split that gives the children the depth of the node
split_keeping_depth(T, n) ==
  split_block(T, n,
              [ i \in 1 .. Degree(T) |->
                  [ a \in 1 .. T.dim |->
                      2 * global_coordinates(T, n)[a] + Bit(i - 1, a - 1) ] ],
              depth(T, n))

\* Orthtree::split without its precondition check (the check is made by the
\* callers below, according to the build).
split(T, n) ==
  split_block(T, n,
              [ i \in 1 .. Degree(T) |->
                  [ a \in 1 .. T.dim |->
                      2 * global_coordinates(T, n)[a] + Bit(i - 1, a - 1) ] ],
              depth(T, n) + 1)

\* ------------------------------------------------------ split predicates
\* Split_predicate is a caller-supplied std::function<bool(Node_index, const
\* Orthtree&)>.  The callers of the model use two families:
\*   kind "depth": depth(n) < k              (Orthtrees::Maximum_depth)
\*   kind "path" : depth(n) < k and n is the cell target (of depth k - 1) or
\*                 one of its ancestors
\* the first either as is, or restricted to leaves (leafOnly), the second
\* restricted to leaves.
split_predicate(p, T, n) ==
  /\ p.leafOnly => is_leaf(T, n)
  /\ depth(T, n) < p.k
  /\ p.kind = "path" =>
       \A a \in 1 .. T.dim :
         global_coordinates(T, n)[a] = p.target[a] \div (2 ^ (p.k - 1 - depth(T, n)))

\* Coordinates, at depth j, of the cells the path predicates aim at: the
\* first cell of the axis and the cell just below its middle.
TargetCoords(j) == IF j = 0 THEN {0} ELSE {0, 2 ^ (j - 1) - 1}

RECURSIVE Cells(_, _)
Cells(dim, j) ==
  IF dim = 0 THEN { << >> }
  ELSE { Append(c, x) : c \in Cells(dim - 1, j), x \in TargetCoords(j) }

Predicates(dim) ==
  { [ kind |-> "depth", k |-> k, target |-> << >>, leafOnly |-> l ] :
      k \in 0 .. MaxUniform, l \in BOOLEAN }
  \cup
  UNION { { [ kind |-> "path", k |-> k, target |-> c, leafOnly |-> l ] :
              c \in Cells(dim, k - 1), l \in {TRUE} } : k \in 2 .. MaxDepth }

\* ---------------------------------------------------------------- refine
\* Orthtree::refine: the loop over the queue todo.  The result is the tree
\* and "none", or the tree at the failed CGAL_precondition(is_leaf(n)) of
\* split and "InvalidSplit" when the checks are compiled in (chk).  With the
\* checks compiled out split runs on the node it was given.
RECURSIVE refine_loop(_, _, _, _)

\* refine that does not queue the last child of a node
refine_loop_without_last_child(T, todo, pred, chk) ==
  IF todo = << >> THEN [ tree |-> T, err |-> "none" ]
  ELSE IF ~Fits(T) THEN [ tree |-> T, err |-> "overflow" ]
  ELSE
    LET current == Head(todo)
        wanted  == split_predicate(pred, T, current)
    IN  IF wanted /\ ~is_leaf(T, current) /\ chk
        THEN [ tree |-> T, err |-> "InvalidSplit" ]
        ELSE
          LET T1   == IF wanted THEN split(T, current) ELSE T
              kids == IF is_leaf(T1, current) THEN << >>
                      ELSE [ i \in 1 .. (Degree(T1) - 1) |-> child(T1, current, i - 1) ]
          IN  refine_loop(T1, Tail(todo) \o kids, pred, chk)

refine_loop(T, todo, pred, chk) ==
  IF todo = << >> THEN [ tree |-> T, err |-> "none" ]
  ELSE IF ~Fits(T) THEN [ tree |-> T, err |-> "overflow" ]
  ELSE
    LET current == Head(todo)
        wanted  == split_predicate(pred, T, current)
    IN  IF wanted /\ ~is_leaf(T, current) /\ chk
        THEN [ tree |-> T, err |-> "InvalidSplit" ]
        ELSE
          LET T1   == IF wanted THEN split(T, current) ELSE T
              kids == IF is_leaf(T1, current) THEN << >>
                      ELSE [ i \in 1 .. Degree(T1) |-> child(T1, current, i - 1) ]
          IN  refine_loop(T1, Tail(todo) \o kids, pred, chk)

refine(T, pred, chk) == refine_loop(T, << root >>, pred, chk)

\* ------------------------------------------------------------- traversal
RECURSIVE deepest_first_child(_, _)
deepest_first_child(T, n) ==
  IF is_leaf(T, n) THEN n ELSE deepest_first_child(T, child(T, n, 0))

next_sibling(T, n) ==
  IF is_root(n) THEN None
  ELSE LET local_coords == to_ulong(local_coordinates(T, n))
       IN  IF local_coords = Degree(T) - 1 THEN None
           ELSE child(T, parent(T, n), local_coords + 1)

\* the while loop of next_sibling_up, from the ancestor up
RECURSIVE next_sibling_up_from(_, _)
next_sibling_up_from(T, up) ==
  IF up = None THEN None
  ELSE IF next_sibling(T, up) # None THEN next_sibling(T, up)
  ELSE next_sibling_up_from(T, IF is_root(up) THEN None ELSE parent(T, up))

next_sibling_up(T, n) ==
  IF n = 0 THEN None ELSE next_sibling_up_from(T, parent(T, n))

Leaves_first_index(T) == deepest_first_child(T, root)

\* Leaves next_index that does not descend from the sibling it finds
Leaves_next_index_without_descent(T, n) ==
  IF next_sibling(T, n) # None
  THEN next_sibling(T, n)
  ELSE IF next_sibling_up(T, n) # None
  THEN next_sibling_up(T, n)
  ELSE None

Leaves_next_index(T, n) ==
  IF next_sibling(T, n) # None
  THEN deepest_first_child(T, next_sibling(T, n))
  ELSE IF next_sibling_up(T, n) # None
  THEN deepest_first_child(T, next_sibling_up(T, n))
  ELSE None

\* Orthtree::traverse with Leaves_traversal: the indices from n on, in order
RECURSIVE Leaves_from(_, _)
Leaves_from(T, n) ==
  IF n = None THEN << >> ELSE << n >> \o Leaves_from(T, Leaves_next_index(T, n))

traverse_leaves(T) == Leaves_from(T, Leaves_first_index(T))

Preorder_first_index(T) == root

\* Preorder next_index that does not walk up from a last child
Preorder_next_index_without_up(T, n) ==
  IF is_leaf(T, n) THEN next_sibling(T, n) ELSE child(T, n, 0)

Preorder_next_index(T, n) ==
  IF is_leaf(T, n)
  THEN LET next == next_sibling(T, n)
       IN  IF next = None THEN next_sibling_up(T, n) ELSE next
  ELSE child(T, n, 0)

\* Orthtree::traverse with Preorder_traversal: the indices from n on, in order
RECURSIVE Preorder_from(_, _)
Preorder_from(T, n) ==
  IF n = None THEN << >> ELSE << n >> \o Preorder_from(T, Preorder_next_index(T, n))

traverse_preorder(T) == Preorder_from(T, Preorder_first_index(T))

Postorder_first_index(T) == deepest_first_child(T, root)

\* Postorder_traversal::next_index(n) is m_orthtree.index(next(&m_orthtree[n])).
\* Orthtree declares no operator[], no member index() and no function next
\* over nodes, so the member has no well-formed instantiation: a program that
\* iterates a postorder traversal does not build, and no index is returned.
Postorder_next_index(T, n) == [ err |-> "IllFormed", index |-> None ]

\* Orthtree::traverse with Postorder_traversal: the indices from n on, in
\* order, or the failure of next_index.
RECURSIVE Postorder_from(_, _)
Postorder_from(T, n) ==
  IF n = None THEN [ err |-> "none", seq |-> << >> ]
  ELSE LET next == Postorder_next_index(T, n)
       IN  IF next.err # "none" THEN [ err |-> next.err, seq |-> << >> ]
           ELSE LET rest == Postorder_from(T, next.index)
                IN  [ err |-> rest.err, seq |-> << n >> \o rest.seq ]

traverse_postorder(T) == Postorder_from(T, Postorder_first_index(T))

\* The while loop of first_child_at_depth over the queue todo.
RECURSIVE first_child_at_depth_loop(_, _, _)
first_child_at_depth_loop(T, todo, d) ==
  IF todo = << >> THEN None
  ELSE
    LET node == Head(todo)
    IN  IF depth(T, node) = d THEN node
        ELSE first_child_at_depth_loop(
               T,
               Tail(todo) \o (IF is_leaf(T, node) THEN << >>
                              ELSE [ i \in 1 .. Degree(T) |-> child(T, node, i - 1) ]),
               d)

first_child_at_depth(T, n, d) == first_child_at_depth_loop(T, << n >>, d)

\* Level_traversal::first_index returns *first_child_at_depth(root, m_depth).
\* Reading the value of an empty optional is undefined: a build with checked
\* library preconditions aborts (err), another one yields whatever index the
\* storage of the optional holds (any index of the store here).
Level_first_index(T, m_depth) ==
  LET first == first_child_at_depth(T, root, m_depth)
  IN  IF first # None THEN { [ err |-> "none", index |-> first ] }
      ELSE { [ err |-> "EmptyOptional", index |-> None ] }
           \cup { [ err |-> "none", index |-> g ] : g \in NodeIndices(T) }

\* The do-while loop of Level_traversal::next_index, from up on.
RECURSIVE Level_next_index_loop(_, _, _)
Level_next_index_loop(T, m_depth, up) ==
  IF next_sibling_up(T, up) = None THEN None
  ELSE
    LET up1  == next_sibling_up(T, up)
        next == first_child_at_depth(T, up1, m_depth)
    IN  IF next = None THEN Level_next_index_loop(T, m_depth, up1) ELSE next

Level_next_index(T, m_depth, n) ==
  LET next == next_sibling(T, n)
  IN  IF next = None THEN Level_next_index_loop(T, m_depth, n) ELSE next

\* Orthtree::traverse with Level_traversal: the indices from n on, in order
RECURSIVE Level_from(_, _, _)
Level_from(T, m_depth, n) ==
  IF n = None THEN << >>
  ELSE << n >> \o Level_from(T, m_depth, Level_next_index(T, m_depth, n))

\* The outcomes of traverse<Level_traversal>(m_depth): the range, or the
\* failure of first_index.
traverse_level(T, m_depth) ==
  { IF f.err = "none"
    THEN [ err |-> "none", seq |-> Level_from(T, m_depth, f.index) ]
    ELSE [ err |-> f.err, seq |-> << >> ] : f \in Level_first_index(T, m_depth) }

\* ------------------------------------------------------------- adjacency
\* The conversion of an int to Local_coordinates = std::bitset<D>, which
\* keeps the D low bits.
bitset(T, v) == v % (2 ^ T.dim)

\* Orthtree::adjacent_node(n, direction), direction a std::bitset<D> value.
RECURSIVE adjacent_node(_, _, _)

\* adjacent_node that takes the opposite corner of the block as the sibling
adjacent_node_opposite_sibling(T, n, direction) ==
  IF is_root(n) THEN None
  ELSE
    LET sign      == direction % 2
        dimension == direction \div 2
        offset    == IF sign = 1 THEN 2 ^ dimension ELSE 0 - 2 ^ dimension
        local     == local_coordinates(T, n)
    IN  IF local[dimension + 1] # sign
        THEN child(T, parent(T, n), Degree(T) - 1 - to_ulong(local))
        ELSE
          LET adjacent_node_of_parent == adjacent_node(T, parent(T, n), direction)
          IN  IF adjacent_node_of_parent = None THEN None
              ELSE IF is_leaf(T, adjacent_node_of_parent) THEN adjacent_node_of_parent
              ELSE child(T, adjacent_node_of_parent, to_ulong(local) - offset)

\* adjacent_node that does not descend into the neighbour of the parent
adjacent_node_without_descent(T, n, direction) ==
  IF is_root(n) THEN None
  ELSE
    LET sign      == direction % 2
        dimension == direction \div 2
        offset    == IF sign = 1 THEN 2 ^ dimension ELSE 0 - 2 ^ dimension
        local     == local_coordinates(T, n)
    IN  IF local[dimension + 1] # sign
        THEN child(T, parent(T, n), to_ulong(local) + offset)
        ELSE adjacent_node(T, parent(T, n), direction)

\* adjacent_node that descends to the child with the local coordinates of n,
\* not to the mirrored one
adjacent_node_without_mirror(T, n, direction) ==
  IF is_root(n) THEN None
  ELSE
    LET sign      == direction % 2
        dimension == direction \div 2
        offset    == IF sign = 1 THEN 2 ^ dimension ELSE 0 - 2 ^ dimension
        local     == local_coordinates(T, n)
    IN  IF local[dimension + 1] # sign
        THEN child(T, parent(T, n), to_ulong(local) + offset)
        ELSE
          LET adjacent_node_of_parent == adjacent_node(T, parent(T, n), direction)
          IN  IF adjacent_node_of_parent = None THEN None
              ELSE IF is_leaf(T, adjacent_node_of_parent) THEN adjacent_node_of_parent
              ELSE child(T, adjacent_node_of_parent, to_ulong(local))

adjacent_node(T, n, direction) ==
  IF is_root(n) THEN None
  ELSE
    LET sign      == direction % 2
        dimension == direction \div 2
        offset    == IF sign = 1 THEN 2 ^ dimension ELSE 0 - 2 ^ dimension
        local     == local_coordinates(T, n)
    IN  IF local[dimension + 1] # sign
        THEN child(T, parent(T, n), to_ulong(local) + offset)
        ELSE
          LET adjacent_node_of_parent == adjacent_node(T, parent(T, n), direction)
          IN  IF adjacent_node_of_parent = None THEN None
              ELSE IF is_leaf(T, adjacent_node_of_parent) THEN adjacent_node_of_parent
              ELSE child(T, adjacent_node_of_parent, to_ulong(local) - offset)

\* ----------------------------------------------------------------- grade
\* The number of directions the loop of grade() runs over.
GradeDirections == 6

\* a test that also lets grade() split a neighbour of the depth of the node
size_t_minus_at_least_0(x, y) == IF x >= y THEN x - y >= 0 ELSE TRUE

\* a test that lets a neighbour two levels above the node pass
size_t_minus_exceeds_2(x, y) == IF x >= y THEN x - y > 2 ELSE TRUE

\* depth(node) - depth(*neighbor) > 1 on std::size_t: a negative difference
\* wraps to a value above 1.
size_t_minus_exceeds_1(x, y) == IF x >= y THEN x - y > 1 ELSE TRUE

\* The values grade() passes to adjacent_node as direction, in the order of
\* its loop "for (int direction = 0; direction < 6; ++direction)": each int
\* is converted to Local_coordinates.
grade_examined_directions(T) ==
  [ k \in 1 .. GradeDirections |-> bitset(T, k - 1) ]

\* The for loop over the directions, from direction on, for one node of the
\* queue; the result is the tree and the queue after the loop.
RECURSIVE grade_directions(_, _, _, _)
grade_directions(T, leaf_nodes, node, direction) ==
  IF direction >= GradeDirections THEN [ tree |-> T, queue |-> leaf_nodes ]
  ELSE
    LET neighbor == adjacent_node(T, node, bitset(T, direction))
    IN  IF neighbor = None
        THEN grade_directions(T, leaf_nodes, node, direction + 1)
        ELSE IF parent(T, neighbor) = parent(T, node)
        THEN grade_directions(T, leaf_nodes, node, direction + 1)
        ELSE IF ~is_leaf(T, neighbor)
        THEN grade_directions(T, leaf_nodes, node, direction + 1)
        ELSE IF size_t_minus_exceeds_1(depth(T, node), depth(T, neighbor))
        THEN LET T1 == split(T, neighbor)
             IN  grade_directions(
                   T1,
                   leaf_nodes \o [ i \in 1 .. Degree(T1) |-> child(T1, neighbor, i - 1) ],
                   node, direction + 1)
        ELSE grade_directions(T, leaf_nodes, node, direction + 1)

\* The while loop of grade() over the queue.
RECURSIVE grade_loop(_, _)
grade_loop(T, leaf_nodes) ==
  IF leaf_nodes = << >> THEN [ tree |-> T, err |-> "none" ]
  ELSE IF number_of_nodes(T) > GradeCap THEN [ tree |-> T, err |-> "overflow" ]
  ELSE
    LET node == Head(leaf_nodes)
    IN  IF ~is_leaf(T, node) THEN grade_loop(T, Tail(leaf_nodes))
        ELSE LET r == grade_directions(T, Tail(leaf_nodes), node, 0)
             IN  grade_loop(r.tree, r.queue)

grade(T) == grade_loop(T, traverse_leaves(T))

\* -------------------------------------------------------------- geometry
\* Coordinates of points are exact numbers (FT of an exact kernel); every
\* side length the model halves is even.
\* (m_bbox.min)()[i], the same on every axis.
m_bbox_min == 0

\* (m_bbox.max)()[i]: the constructor sets m_side_per_depth[0] = max - min.
m_bbox_max(T) == m_bbox_min + T.side[1]

\* Orthtree::bbox(n): the min and the max corner.
bbox(T, n) ==
  LET node_depth == depth(T, n)
      size       == T.side[node_depth + 1]
      last_coord == 2 ^ node_depth - 1
  IN  [ min |-> [ i \in 1 .. T.dim |->
                    m_bbox_min + global_coordinates(T, n)[i] * size ],
        max |-> [ i \in 1 .. T.dim |->
                    IF global_coordinates(T, n)[i] = last_coord
                    THEN m_bbox_max(T)
                    ELSE m_bbox_min + (global_coordinates(T, n)[i] + 1) * size ] ]

\* barycenter that leaves out the half side: the min corner of the node
barycenter_at_min_corner(T, n) ==
  LET size == T.side[depth(T, n) + 1]
  IN  [ i \in 1 .. T.dim |->
          m_bbox_min + (2 * global_coordinates(T, n)[i]) * (size \div 2) ]

\* Orthtree::barycenter(n)
barycenter(T, n) ==
  LET size == T.side[depth(T, n) + 1]
  IN  [ i \in 1 .. T.dim |->
          m_bbox_min + (2 * global_coordinates(T, n)[i] + 1) * (size \div 2) ]

\* Traits::Locate_halfspace, the caller's comparison of a coordinate of the
\* barycenter with that of the point: strict (h = "lt") or not (h = "le").
locate_halfspace(h, center, point) ==
  IF h = "lt" THEN center < point ELSE center <= point

HalfspaceKinds == { "lt", "le" }

\* CGAL::do_intersect(point, bbox): the point lies in the closed box.
do_intersect_point(point, box) ==
  \A i \in 1 .. Len(point) : box.min[i] <= point[i] /\ point[i] <= box.max[i]

\* The while loop of locate, from the node node_for_point down.
RECURSIVE locate_from(_, _, _, _)
locate_from(T, h, point, node_for_point) ==
  IF is_leaf(T, node_for_point) THEN node_for_point
  ELSE
    LET center       == barycenter(T, node_for_point)
        local_coords == [ i \in 1 .. T.dim |->
                            IF locate_halfspace(h, center[i], point[i]) THEN 1 ELSE 0 ]
    IN  locate_from(T, h, point, child(T, node_for_point, to_ulong(local_coords)))

\* Orthtree::locate(point), for a point within bbox(root()).
locate(T, h, point) == locate_from(T, h, point, root)

\* --------------------------------------------------- intersection query
\* CGAL::do_intersect(query, bbox) of the geometry kernel, for a query that
\* is a closed axis-aligned box [ query.min, query.max ].
do_intersect_box(query, box) ==
  \A i \in 1 .. Len(box.min) :
    query.min[i] <= box.max[i] /\ box.min[i] <= query.max[i]

\* intersected_nodes_recursive(query, node, output).  The output iterator is
\* a write position, passed and returned by value; "*output++ = node" writes
\* node at the position and advances the local copy.  The result holds the
\* position returned (out), the writes << position, node >> in the order
\* they are made, and the nodes whose box was tested, in order.
RECURSIVE intersected_nodes_recursive(_, _, _, _)

\* The for loop over the children, from child i on: every call gets the
\* position output of the caller, and its result is not used.
RECURSIVE intersected_nodes_children(_, _, _, _, _)
intersected_nodes_children(T, query, node, output, i) ==
  IF i >= Degree(T) THEN [ writes |-> << >>, tested |-> << >> ]
  ELSE
    LET one  == intersected_nodes_recursive(T, query, child(T, node, i), output)
        rest == intersected_nodes_children(T, query, node, output, i + 1)
    IN  [ writes |-> one.writes \o rest.writes,
          tested |-> one.tested \o rest.tested ]

\* intersected_nodes_recursive that tests no box
intersected_nodes_recursive_without_test(T, query, node, output) ==
  IF is_leaf(T, node)
  THEN [ out |-> output + 1, writes |-> << << output, node >> >>,
         tested |-> << node >> ]
  ELSE LET below == intersected_nodes_children(T, query, node, output, 0)
       IN  [ out |-> output, writes |-> below.writes,
             tested |-> << node >> \o below.tested ]

intersected_nodes_recursive(T, query, node, output) ==
  IF do_intersect_box(query, bbox(T, node))
  THEN IF is_leaf(T, node)
       THEN [ out |-> output + 1, writes |-> << << output, node >> >>,
              tested |-> << node >> ]
       ELSE LET below == intersected_nodes_children(T, query, node, output, 0)
            IN  [ out |-> output, writes |-> below.writes,
                  tested |-> << node >> \o below.tested ]
  ELSE [ out |-> output, writes |-> << >>, tested |-> << node >> ]

\* Orthtree::intersected_nodes(query, output)
intersected_nodes(T, query, output) ==
  intersected_nodes_recursive(T, query, root, output)

\* -------------------------------------------------------------- equality
RECURSIVE is_topology_equal_nodes(_, _, _, _)

\* The for loop of is_topology_equal over the children, from child i on:
\* TRUE iff no pair of children differs.
RECURSIVE is_topology_equal_children(_, _, _, _, _)
is_topology_equal_children(lhsNode, lhsTree, rhsNode, rhsTree, i) ==
  IF i >= Degree(lhsTree) THEN TRUE
  ELSE IF ~is_topology_equal_nodes(child(lhsTree, lhsNode, i), lhsTree,
                                   child(rhsTree, rhsNode, i), rhsTree)
  THEN FALSE
  ELSE is_topology_equal_children(lhsNode, lhsTree, rhsNode, rhsTree, i + 1)

\* is_topology_equal that does not look below the two nodes
is_topology_equal_without_children(lhsNode, lhsTree, rhsNode, rhsTree) ==
  IF is_leaf(lhsTree, lhsNode) # is_leaf(rhsTree, rhsNode) THEN FALSE
  ELSE global_coordinates(lhsTree, lhsNode) = global_coordinates(rhsTree, rhsNode)

\* Orthtree::is_topology_equal(lhsNode, lhsTree, rhsNode, rhsTree)
is_topology_equal_nodes(lhsNode, lhsTree, rhsNode, rhsTree) ==
  IF is_leaf(lhsTree, lhsNode) # is_leaf(rhsTree, rhsNode) THEN FALSE
  ELSE IF ~is_leaf(lhsTree, lhsNode)
          /\ ~is_topology_equal_children(lhsNode, lhsTree, rhsNode, rhsTree, 0)
  THEN FALSE
  ELSE global_coordinates(lhsTree, lhsNode) = global_coordinates(rhsTree, rhsNode)

\* Orthtree::is_topology_equal(lhs, rhs)
is_topology_equal(lhs, rhs) == is_topology_equal_nodes(root, lhs, root, rhs)

\* Orthtree::operator==, of two trees with the root bounding box m_bbox.
operator_equal(lhs, rhs) ==
  IF rhs.side[1] # lhs.side[1] THEN FALSE
  ELSE IF tree_depth(rhs) # tree_depth(lhs) THEN FALSE
  ELSE is_topology_equal(lhs, rhs)

\* -------------------------------------------------- copy and move
\* Two Orthtree objects at once.  The attribute arrays live in a heap H (a
\* sequence of arrays, an array being known by its position).  An object O
\* holds its container m_node_properties (O.props: the array of each name),
\* the four array handles m_node_depths, m_node_coordinates, m_node_parents
\* and m_node_children (O.depths, O.coords, O.parents, O.children: arrays of
\* the heap) and its own m_side_per_depth (O.side).
OriginalHeap(T) == << T.depths, T.coords, T.parents, T.children >>

OriginalObject(T) ==
  [ dim      |-> T.dim,
    props    |-> [ depths |-> 1, coords |-> 2, parents |-> 3, children |-> 4 ],
    depths   |-> 1,
    coords   |-> 2,
    parents  |-> 3,
    children |-> 4,
    side     |-> T.side ]

\* The tree an object shows through its handles.
View(H, O) ==
  [ dim      |-> O.dim,
    depths   |-> H[O.depths],
    coords   |-> H[O.coords],
    parents  |-> H[O.parents],
    children |-> H[O.children],
    side     |-> O.side ]

\* The copy constructor of Property_container: new arrays with the contents
\* of the arrays of the source.
Property_container_copy(H, props) ==
  [ heap  |-> H \o << H[props.depths], H[props.coords],
                      H[props.parents], H[props.children] >>,
    props |-> [ depths   |-> Len(H) + 1, coords   |-> Len(H) + 2,
                parents  |-> Len(H) + 3, children |-> Len(H) + 4 ] ]

\* Property_container::get_property(name)
get_property(props, name) == props[name]

\* a copy constructor that copies the array handles of the source
copy_construct_with_handles_of_other(H, other) ==
  LET c == Property_container_copy(H, other.props)
  IN  [ heap |-> c.heap,
        tree |-> [ dim      |-> other.dim,
                   props    |-> c.props,
                   depths   |-> other.depths,
                   coords   |-> other.coords,
                   parents  |-> other.parents,
                   children |-> other.children,
                   side     |-> other.side ] ]

\* Orthtree(const Orthtree& other): the heap and the new object.
copy_construct(H, other) ==
  LET c == Property_container_copy(H, other.props)
  IN  [ heap |-> c.heap,
        tree |-> [ dim      |-> other.dim,
                   props    |-> c.props,
                   depths   |-> get_property(c.props, "depths"),
                   coords   |-> get_property(c.props, "coords"),
                   parents  |-> get_property(c.props, "parents"),
                   children |-> get_property(c.props, "children"),
                   side     |-> other.side ] ]

\* The heap and the object after a member function of O has turned the tree
\* O shows into T: the function writes through the handles of O and to the
\* side length table of O.
Written(H, O, T) ==
  [ heap |-> [ a \in 1 .. Len(H) |->
                 IF a = O.depths THEN T.depths
                 ELSE IF a = O.coords THEN T.coords
                 ELSE IF a = O.parents THEN T.parents
                 ELSE IF a = O.children THEN T.children
                 ELSE H[a] ],
    tree |-> [ O EXCEPT !.side = T.side ] ]

\* Orthtree(Orthtree&& other): the trees the moved-from object other can show
\* afterwards.  The container is moved to the new object and other's container
\* then gets one element (emplace()); whether other's handles then show that
\* element or still the arrays now owned by the new object is decided by
\* Property_container.  m_side_per_depth is copied, not moved, in either case.
moved_from(H, other) ==
  { [ dim      |-> other.dim,
      depths   |-> << 0 >>,
      coords   |-> << [ a \in 1 .. other.dim |-> 0 ] >>,
      parents  |-> << None >>,
      children |-> << None >>,
      side     |-> other.side ],
    View(H, other) }

\* ----------------------------------------------- calls with preconditions
\* The calls a function makes of parent(), child() and split() and its reads
\* of the value of an optional (operator*), each with the node it is made on
\* and whether its precondition holds in the tree at the time of the call.
call_of_parent(n) == [ fn |-> "parent", node |-> n, ok |-> ~is_root(n) ]

call_of_child(T, n) == [ fn |-> "child", node |-> n, ok |-> ~is_leaf(T, n) ]

call_of_split(T, n) == [ fn |-> "split", node |-> n, ok |-> is_leaf(T, n) ]

value_of_optional(o) == [ fn |-> "value", node |-> o, ok |-> o # None ]

\* the calls of next_sibling(n)
next_sibling_calls(T, n) ==
  IF is_root(n) THEN {}
  ELSE IF to_ulong(local_coordinates(T, n)) = Degree(T) - 1 THEN {}
  ELSE { call_of_parent(n), call_of_child(T, parent(T, n)) }

\* the calls of the while loop of next_sibling_up, from the ancestor up
RECURSIVE next_sibling_up_calls_from(_, _)
next_sibling_up_calls_from(T, up) ==
  IF up = None THEN {}
  ELSE { value_of_optional(up) } \cup next_sibling_calls(T, up)
       \cup (IF next_sibling(T, up) # None THEN {}
             ELSE IF is_root(up) THEN {}
             ELSE { call_of_parent(up) }
                  \cup next_sibling_up_calls_from(T, parent(T, up)))

\* the calls of next_sibling_up(n)
next_sibling_up_calls(T, n) ==
  IF n = 0 THEN {}
  ELSE { call_of_parent(n) } \cup next_sibling_up_calls_from(T, parent(T, n))

\* the calls of deepest_first_child(n)
RECURSIVE deepest_first_child_calls(_, _)
deepest_first_child_calls(T, n) ==
  IF is_leaf(T, n) THEN {}
  ELSE { call_of_child(T, n) } \cup deepest_first_child_calls(T, child(T, n, 0))

\* the calls of Preorder_traversal::next_index(n)
Preorder_next_index_calls(T, n) ==
  IF is_leaf(T, n)
  THEN next_sibling_calls(T, n)
       \cup (IF next_sibling(T, n) = None THEN next_sibling_up_calls(T, n) ELSE {})
  ELSE { call_of_child(T, n) }

\* the calls of Leaves_traversal::next_index(n)
Leaves_next_index_calls(T, n) ==
  next_sibling_calls(T, n)
  \cup (IF next_sibling(T, n) # None
        THEN { value_of_optional(next_sibling(T, n)) }
             \cup deepest_first_child_calls(T, next_sibling(T, n))
        ELSE next_sibling_up_calls(T, n)
             \cup (IF next_sibling_up(T, n) # None
                   THEN { value_of_optional(next_sibling_up(T, n)) }
                        \cup deepest_first_child_calls(T, next_sibling_up(T, n))
                   ELSE {}))

\* the calls of traverse with Preorder_traversal, iterated to its end
traverse_preorder_calls(T) ==
  LET visited == traverse_preorder(T)
  IN  UNION { Preorder_next_index_calls(T, visited[k]) : k \in 1 .. Len(visited) }

\* the calls of traverse with Leaves_traversal, iterated to its end
traverse_leaves_calls(T) ==
  LET visited == traverse_leaves(T)
  IN  deepest_first_child_calls(T, root)
      \cup UNION { Leaves_next_index_calls(T, visited[k]) : k \in 1 .. Len(visited) }

\* the calls of the while loop of locate, from the node node_for_point down
RECURSIVE locate_calls_from(_, _, _, _)
locate_calls_from(T, h, point, node_for_point) ==
  IF is_leaf(T, node_for_point) THEN {}
  ELSE
    LET center       == barycenter(T, node_for_point)
        local_coords == [ i \in 1 .. T.dim |->
                            IF locate_halfspace(h, center[i], point[i]) THEN 1 ELSE 0 ]
    IN  { call_of_child(T, node_for_point) }
        \cup locate_calls_from(T, h, point,
                               child(T, node_for_point, to_ulong(local_coords)))

\* the calls of locate(point)
locate_calls(T, h, point) == locate_calls_from(T, h, point, root)

RECURSIVE adjacent_node_calls(_, _, _)

\* adjacent_node that asks for the parent before it tests for the root
adjacent_node_calls_without_root_test(T, n, direction) ==
  IF is_root(n) THEN { call_of_parent(n) }
  ELSE
    LET sign      == direction % 2
        dimension == direction \div 2
        local     == local_coordinates(T, n)
    IN  IF local[dimension + 1] # sign
        THEN { call_of_parent(n), call_of_child(T, parent(T, n)) }
        ELSE
          LET adjacent_node_of_parent == adjacent_node(T, parent(T, n), direction)
          IN  { call_of_parent(n) }
              \cup adjacent_node_calls(T, parent(T, n), direction)
              \cup (IF adjacent_node_of_parent = None THEN {}
                    ELSE { value_of_optional(adjacent_node_of_parent) }
                         \cup (IF is_leaf(T, adjacent_node_of_parent) THEN {}
                               ELSE { call_of_child(T, adjacent_node_of_parent) }))

\* the calls of adjacent_node(n, direction)
adjacent_node_calls(T, n, direction) ==
  IF is_root(n) THEN {}
  ELSE
    LET sign      == direction % 2
        dimension == direction \div 2
        local     == local_coordinates(T, n)
    IN  IF local[dimension + 1] # sign
        THEN { call_of_parent(n), call_of_child(T, parent(T, n)) }
        ELSE
          LET adjacent_node_of_parent == adjacent_node(T, parent(T, n), direction)
          IN  { call_of_parent(n) }
              \cup adjacent_node_calls(T, parent(T, n), direction)
              \cup (IF adjacent_node_of_parent = None THEN {}
                    ELSE { value_of_optional(adjacent_node_of_parent) }
                         \cup (IF is_leaf(T, adjacent_node_of_parent) THEN {}
                               ELSE { call_of_child(T, adjacent_node_of_parent) }))

\* The for loop of grade() over the directions, from direction on, for one
\* node of the queue, with the calls it makes: the tree, the queue and the
\* calls after the loop.
RECURSIVE grade_directions_calls(_, _, _, _, _)
grade_directions_calls(T, leaf_nodes, node, direction, calls) ==
  IF direction >= GradeDirections
  THEN [ tree |-> T, queue |-> leaf_nodes, calls |-> calls ]
  ELSE
    LET neighbor == adjacent_node(T, node, bitset(T, direction))
        found    == calls \cup adjacent_node_calls(T, node, bitset(T, direction))
    IN  IF neighbor = None
        THEN grade_directions_calls(T, leaf_nodes, node, direction + 1, found)
        ELSE
          LET compared == found \cup { value_of_optional(neighbor),
                                       call_of_parent(neighbor), call_of_parent(node) }
          IN  IF parent(T, neighbor) = parent(T, node)
              THEN grade_directions_calls(T, leaf_nodes, node, direction + 1, compared)
              ELSE IF ~is_leaf(T, neighbor)
              THEN grade_directions_calls(T, leaf_nodes, node, direction + 1, compared)
              ELSE IF size_t_minus_exceeds_1(depth(T, node), depth(T, neighbor))
              THEN LET T1 == split(T, neighbor)
                   IN  grade_directions_calls(
                         T1,
                         leaf_nodes \o [ i \in 1 .. Degree(T1) |-> child(T1, neighbor, i - 1) ],
                         node, direction + 1,
                         compared \cup { call_of_split(T, neighbor),
                                         call_of_child(T1, neighbor) })
              ELSE grade_directions_calls(T, leaf_nodes, node, direction + 1, compared)

\* The while loop of grade() over the queue, with the calls it makes.
RECURSIVE grade_loop_calls(_, _, _)
grade_loop_calls(T, leaf_nodes, calls) ==
  IF leaf_nodes = << >> THEN [ tree |-> T, err |-> "none", calls |-> calls ]
  ELSE IF number_of_nodes(T) > GradeCap
  THEN [ tree |-> T, err |-> "overflow", calls |-> calls ]
  ELSE
    LET node == Head(leaf_nodes)
    IN  IF ~is_leaf(T, node) THEN grade_loop_calls(T, Tail(leaf_nodes), calls)
        ELSE LET r == grade_directions_calls(T, Tail(leaf_nodes), node, 0, calls)
             IN  grade_loop_calls(r.tree, r.queue, r.calls)

\* grade() with the calls it makes
grade_calls(T) == grade_loop_calls(T, traverse_leaves(T), traverse_leaves_calls(T))

\* ------------------------------------------------------------ the machine
Store(T) ==
  /\ m_node_depths' = T.depths
  /\ m_node_coordinates' = T.coords
  /\ m_node_parents' = T.parents
  /\ m_node_children' = T.children
  /\ m_side_per_depth' = T.side

Init ==
  /\ D \in 1 .. MaxDim
  /\ checks \in BOOLEAN
  /\ m_node_depths = << 0 >>
  /\ m_node_coordinates = << [ a \in 1 .. D |-> 0 ] >>
  /\ m_node_parents = << None >>
  /\ m_node_children = << None >>
  /\ m_side_per_depth = << RootSide >>
  /\ err = "none"
  /\ lastOp = "construct"

\* A direct call of split(n) by the caller, on a leaf as split requires.
Split(n) ==
  /\ err = "none"
  /\ is_leaf(Self, n)
  /\ depth(Self, n) < MaxDepth
  /\ number_of_blocks(Self) < MaxSplitBlocks
  /\ number_of_nodes(Self) + Degree(Self) <= MaxNodes
  /\ Store(split(Self, n))
  /\ lastOp' = "split"
  /\ UNCHANGED << D, checks, err >>

\* A call of refine(split_predicate).
Refine(p) ==
  /\ err = "none"
  /\ LET r == refine(Self, p, checks)
     IN  /\ r.err # "overflow"
         /\ Fits(r.tree)
         /\ Store(r.tree)
         /\ err' = r.err
  /\ lastOp' = "refine"
  /\ UNCHANGED << D, checks >>

\* A call of grade().
Grade ==
  /\ err = "none"
  /\ LET r == grade(Self)
     IN  /\ r.err = "none"
         /\ Store(r.tree)
  /\ lastOp' = "grade"
  /\ UNCHANGED << D, checks, err >>

Next ==
  \/ \E n \in NodeIndices(Self) : Split(n)
  \/ \E p \in Predicates(D) : Refine(p)
  \/ Grade

Spec == Init /\ [][Next]_vars

\* ------------------------------------------------- reference definitions
\* The tree of the next state.
SelfNext == [ dim      |-> D',
              depths   |-> m_node_depths',
              coords   |-> m_node_coordinates',
              parents  |-> m_node_parents',
              children |-> m_node_children',
              side     |-> m_side_per_depth' ]

\* The tree after construction.
FreshTree(dim) == [ dim      |-> dim,
                    depths   |-> << 0 >>,
                    coords   |-> << [ a \in 1 .. dim |-> 0 ] >>,
                    parents  |-> << None >>,
                    children |-> << None >>,
                    side     |-> << RootSide >> ]

DepthPredicate(k, l) == [ kind |-> "depth", k |-> k, target |-> << >>, leafOnly |-> l ]

\* The nodes of the tree: those reached from n through child blocks.
RECURSIVE Subtree(_, _)
Subtree(T, n) ==
  IF is_leaf(T, n) THEN {n}
  ELSE {n} \cup UNION { Subtree(T, T.children[n + 1] + i) : i \in 0 .. (Degree(T) - 1) }

TreeNodes(T) == Subtree(T, root)

TreeLeaves(T) == { n \in TreeNodes(T) : is_leaf(T, n) }

Max(x, y) == IF x >= y THEN x ELSE y
Min(x, y) == IF x <= y THEN x ELSE y

\* The cell of x along axis a as an interval of cells of depth m >= depth(x).
CellLo(T, x, a, m) == T.coords[x + 1][a] * (2 ^ (m - T.depths[x + 1]))
CellHi(T, x, a, m) == (T.coords[x + 1][a] + 1) * (2 ^ (m - T.depths[x + 1]))

\* x and y share a face: their cells touch along one axis and overlap in the
\* interior along every other axis.
ShareFace(T, x, y) ==
  LET m == Max(T.depths[x + 1], T.depths[y + 1])
  IN  \E a \in 1 .. T.dim :
        /\ \/ CellHi(T, x, a, m) = CellLo(T, y, a, m)
           \/ CellHi(T, y, a, m) = CellLo(T, x, a, m)
        /\ \A b \in (1 .. T.dim) \ {a} :
             Max(CellLo(T, x, b, m), CellLo(T, y, b, m))
               < Min(CellHi(T, x, b, m), CellHi(T, y, b, m))

IsGraded(T) ==
  LET leaves == TreeLeaves(T)
  IN  \A x \in leaves : \A y \in leaves :
        (T.depths[x + 1] > T.depths[y + 1] + 1) => ~ShareFace(T, x, y)

\* The coordinates of the cell next to n in the direction dir, at depth(n).
TargetCell(T, n, dir) ==
  [ a \in 1 .. T.dim |->
      IF a = (dir \div 2) + 1
      THEN T.coords[n + 1][a] + (IF dir % 2 = 1 THEN 1 ELSE -1)
      ELSE T.coords[n + 1][a] ]

\* The nodes, among nodes, that cover the cell t of depth k and are of depth
\* k or leaves.
Covering(T, nodes, t, k) ==
  { m \in nodes :
      /\ T.depths[m + 1] <= k
      /\ \A b \in 1 .. T.dim : T.coords[m + 1][b] = t[b] \div (2 ^ (k - T.depths[m + 1]))
      /\ (T.depths[m + 1] = k \/ T.children[m + 1] = None) }

Directions(T) == 0 .. (2 * T.dim - 1)

\* The complete tree of depth k.
IsComplete(T, k) ==
  /\ \A j \in 0 .. k :
       Cardinality({ n \in NodeIndices(T) : T.depths[n + 1] = j }) = Degree(T) ^ j
  /\ \A n \in NodeIndices(T) :
       /\ T.depths[n + 1] <= k
       /\ (T.children[n + 1] = None) <=> (T.depths[n + 1] = k)
  /\ TreeNodes(T) = NodeIndices(T)
  /\ tree_depth(T) = k

\* ---------------------------------------------------------------- claims

\* C1: after grade() has run, any two leaves of the tree that share a face
\* differ in depth by at most 1.
GradeBalances == (lastOp = "grade") => IsGraded(Self)

AdjacentNeverSmaller ==
  \A n \in NodeIndices(Self) : \A dir \in Directions(Self) :
    LET r == adjacent_node(Self, n, dir)
    IN  r # None =>
          /\ depth(Self, r) <= depth(Self, n)
          /\ depth(Self, r) < depth(Self, n) => is_leaf(Self, r)

\* C3 witness: some node has a larger leaf as its neighbour.
LargerNeighbourReached ==
  \E n \in NodeIndices(Self) : \E dir \in Directions(Self) :
    LET r == adjacent_node(Self, n, dir)
    IN  r # None /\ depth(Self, r) + 2 <= depth(Self, n) /\ is_leaf(Self, r)

\* opposite(dir): the same axis, the other sign
opposite(dir) == IF dir % 2 = 0 THEN dir + 1 ELSE dir - 1

\* C4: if adjacent_node(a, dir) is a leaf b of the depth of a, then
\* adjacent_node(b, opposite(dir)) is a, for every node a of the tree.
AdjacencySymmetric ==
  \A a \in TreeNodes(Self) : \A dir \in Directions(Self) :
    LET b == adjacent_node(Self, a, dir)
    IN  (b # None /\ is_leaf(Self, b) /\ depth(Self, b) = depth(Self, a))
          => adjacent_node(Self, b, opposite(dir)) = a

\* C4 witness: a leaf and its same-depth leaf neighbour under another parent,
\* two levels down.
SymmetricPairReached ==
  \E a \in TreeNodes(Self) : \E dir \in Directions(Self) :
    LET b == adjacent_node(Self, a, dir)
    IN  /\ b # None
        /\ is_leaf(Self, b) /\ is_leaf(Self, a)
        /\ depth(Self, b) = depth(Self, a)
        /\ depth(Self, a) >= 2
        /\ parent(Self, b) # parent(Self, a)
        /\ adjacent_node(Self, b, opposite(dir)) = a

\* C5: the root has coordinates 0, and the i-th child of a node p has, on
\* every axis a, the coordinate 2 * (that of p) + bit a of i.
CoordinateInvariant ==
  /\ \A a \in 1 .. D : global_coordinates(Self, root)[a] = 0
  /\ \A n \in NodeIndices(Self) \ {root} : \A i \in 0 .. (Degree(Self) - 1) :
       LET p == parent(Self, n)
       IN  (~is_leaf(Self, p) /\ child(Self, p, i) = n) =>
             \A a \in 1 .. D :
               global_coordinates(Self, n)[a]
                 = 2 * global_coordinates(Self, p)[a] + Bit(i, a - 1)

\* C5 witness: after grade(), a node three levels down that is the last child
\* of its parent.
DeepLastChildReached ==
  /\ lastOp = "grade"
  /\ \E n \in NodeIndices(Self) \ {root} :
       /\ depth(Self, n) >= 3
       /\ ~is_leaf(Self, parent(Self, n))
       /\ child(Self, parent(Self, n), Degree(Self) - 1) = n
       /\ \A a \in 1 .. D : global_coordinates(Self, n)[a] % 2 = 1

\* The nodes of the b-th block allocated by split (b >= 0).
Block(T, b) == (1 + b * Degree(T)) .. ((b + 1) * Degree(T))

\* C6: the root has depth 0, every other node is one level below its parent,
\* and the nodes of one block have the same parent.
DepthInvariant ==
  /\ depth(Self, root) = 0
  /\ \A n \in NodeIndices(Self) \ {root} :
       depth(Self, n) = depth(Self, parent(Self, n)) + 1
  /\ \A b \in 0 .. (number_of_blocks(Self) - 1) :
       \A x \in Block(Self, b) : \A y \in Block(Self, b) :
         parent(Self, x) = parent(Self, y)

\* C6 witness: a tree of several blocks with nodes four levels down, after
\* refine.
DeepBlocksReached ==
  /\ lastOp = "refine"
  /\ number_of_blocks(Self) >= 4
  /\ \E n \in NodeIndices(Self) : depth(Self, n) >= 4

\* C7: a node is a leaf iff it has no first child; the children of an
\* internal node are the 2^D nodes of one block of the store, each with that
\* node as parent; blocks of distinct nodes are disjoint and every node but
\* the root lies in the block of exactly one node.
StoreStructure ==
  LET T == Self
      internal == { n \in NodeIndices(T) : T.children[n + 1] # None }
      kids(n) == { T.children[n + 1] + i : i \in 0 .. (Degree(T) - 1) }
  IN  /\ \A n \in internal :
           /\ kids(n) \subseteq NodeIndices(T)
           /\ \A c \in kids(n) : T.parents[c + 1] = n
      /\ \A n \in internal : \A m \in internal :
           n # m => kids(n) \cap kids(m) = {}
      /\ \A c \in NodeIndices(T) \ {root} :
           Cardinality({ n \in internal : c \in kids(n) }) = 1

\* C8: a call of refine does not fail in split, and leaves the first child of
\* every node that already had children as it was.
RefineSkipsSplitNodes ==
  [][ (lastOp' = "refine") =>
        /\ err' = "none"
        /\ \A n \in NodeIndices(Self) :
             ~is_leaf(Self, n) => m_node_children'[n + 1] = m_node_children[n + 1]
    ]_vars

\* C9: on the tree that refine(depth < k) made of the tree after
\* construction, a second refine(depth < k) changes no node and does not fail.
RefineTwiceChangesNothing ==
  [][ \A k \in 1 .. MaxUniform :
        ( /\ lastOp = "refine"
          /\ Self = refine(FreshTree(D), DepthPredicate(k, FALSE), checks).tree
          /\ Refine(DepthPredicate(k, FALSE)) )
        => (SelfNext = Self /\ err' = "none")
    ]_vars

\* C10: refine(depth < k) on the tree after construction ends with the
\* complete tree of depth k.
RefineBuildsCompleteTree ==
  [][ \A k \in 0 .. MaxUniform : \A l \in BOOLEAN :
        ( /\ lastOp = "construct"
          /\ Refine(DepthPredicate(k, l)) )
        => (err' = "none" /\ IsComplete(SelfNext, k))
    ]_vars

\* C10 witness: the quadtree after refine(depth < 2): 21 nodes, 16 leaves.
CompleteQuadtreeReached ==
  /\ D = 2
  /\ lastOp = "refine"
  /\ Self = refine(FreshTree(2), DepthPredicate(2, FALSE), checks).tree
  /\ number_of_nodes(Self) = 21
  /\ Cardinality(TreeLeaves(Self)) = 16
  /\ tree_depth(Self) = 2

\* C11: no step removes a node or changes the depth, the coordinates or the
\* parent of an existing node, and the first child of a node changes only
\* from absent to present; a direct split of n adds exactly 2^D nodes.
AppendOnlyStore ==
  [][ /\ number_of_nodes(SelfNext) >= number_of_nodes(Self)
      /\ \A n \in NodeIndices(Self) :
           /\ m_node_depths'[n + 1] = m_node_depths[n + 1]
           /\ m_node_coordinates'[n + 1] = m_node_coordinates[n + 1]
           /\ m_node_parents'[n + 1] = m_node_parents[n + 1]
           /\ ~is_leaf(Self, n) => m_node_children'[n + 1] = m_node_children[n + 1]
      /\ (lastOp' = "split") =>
           number_of_nodes(SelfNext) = number_of_nodes(Self) + Degree(Self)
    ]_vars

\* The depth of the deepest node of the store.
DeepestDepth(T) ==
  CHOOSE d \in 0 .. MaxDepth + 1 :
    /\ \E n \in NodeIndices(T) : depth(T, n) = d
    /\ \A n \in NodeIndices(T) : depth(T, n) <= d

\* C12: on every tree the program reaches, grade() runs until its queue is
\* empty, and no node of the result is deeper than the deepest node before
\* the call (the side length table keeps its length).
GradeTerminates ==
  (err = "none") =>
    LET r == grade(Self)
    IN  /\ r.err = "none"
        /\ tree_depth(r.tree) = tree_depth(Self)
        /\ \A n \in NodeIndices(r.tree) : depth(r.tree, n) <= DeepestDepth(Self)

\* C12 witness: a tree on which grade() splits at least three leaves.
GradeSplitsSeveralReached ==
  /\ err = "none"
  /\ number_of_nodes(grade(Self).tree) >= number_of_nodes(Self) + 3 * Degree(Self)

\* The grading scenario: a quadtree without stale nodes whose deepest nodes
\* are at depth 3, all below the child q of the root, the three other
\* children of the root being leaves.
GradingScenario(T, q) ==
  /\ T.dim = 2
  /\ TreeNodes(T) = NodeIndices(T)
  /\ ~is_leaf(T, root)
  /\ q \in { child(T, root, i) : i \in 0 .. 3 }
  /\ ~is_leaf(T, q)
  /\ \A i \in 0 .. 3 : child(T, root, i) # q => is_leaf(T, child(T, root, i))
  /\ DeepestDepth(T) = 3

\* The siblings of the quadrant q.
Siblings(T, q) == { child(T, root, i) : i \in 0 .. 3 } \ {q}

\* s has been split and every leaf below it is at depth 2 or more.
SplitToDepth2(T, s) ==
  /\ ~is_leaf(T, s)
  /\ \A n \in Subtree(T, s) : is_leaf(T, n) => depth(T, n) >= 2

\* s shares a face with a leaf of depth 3.
FacesDepth3Leaf(T, s) ==
  \E x \in NodeIndices(T) : depth(T, x) = 3 /\ ShareFace(T, x, s)

SideTableInvariant ==
  /\ [](tree_depth(Self) = DeepestDepth(Self))
  /\ [][ Len(m_side_per_depth') > Len(m_side_per_depth)
           => DeepestDepth(SelfNext) > DeepestDepth(Self) ]_vars

\* C14 witness: after refine, a tree three levels deep with more blocks of
\* children than levels (some split did not reach a new depth).
SplitsWithoutNewDepthReached ==
  /\ lastOp = "refine"
  /\ tree_depth(Self) = 3
  /\ number_of_blocks(Self) >= 5
  /\ Len(m_side_per_depth) = 4

\* The points whose i-th coordinate is in f[i].
RECURSIVE PointsOver(_, _)
PointsOver(f, i) ==
  IF i = 0 THEN { << >> }
  ELSE { Append(t, x) : t \in PointsOver(f, i - 1), x \in f[i] }

\* The query points of a tree: the corners of the box of every node, and for
\* every internal node the points on, just below and just above each of its
\* split planes.
QueryPoints(T) ==
  UNION { PointsOver([ i \in 1 .. T.dim |-> { bbox(T, n).min[i], bbox(T, n).max[i] } ],
                     T.dim) : n \in TreeNodes(T) }
  \cup
  UNION { PointsOver([ i \in 1 .. T.dim |->
                         { barycenter(T, n)[i] - 1, barycenter(T, n)[i],
                           barycenter(T, n)[i] + 1 } ], T.dim) :
            n \in { m \in TreeNodes(T) : ~is_leaf(T, m) } }

\* C15: for every query point p in the closed box of the root and either
\* half-space comparison, locate(p) is a leaf whose closed box contains p.
LocateContainment ==
  \A h \in HalfspaceKinds : \A p \in QueryPoints(Self) :
    do_intersect_point(p, bbox(Self, root)) =>
      LET l == locate(Self, h, p)
      IN  /\ l \in NodeIndices(Self)
          /\ is_leaf(Self, l)
          /\ do_intersect_point(p, bbox(Self, l))

\* C15 witness: a tree in which the point on all split planes of the root is
\* located in a leaf of depth 3 that contains it, in another leaf for the
\* other comparison, and the max corner of the root box in a leaf below the
\* root that contains it.
LocateOnSplitPlaneReached ==
  LET c  == barycenter(Self, root)
      mx == bbox(Self, root).max
  IN  /\ depth(Self, locate(Self, "lt", c)) = 3
      /\ do_intersect_point(c, bbox(Self, locate(Self, "lt", c)))
      /\ locate(Self, "le", c) # locate(Self, "lt", c)
      /\ depth(Self, locate(Self, "lt", mx)) >= 1
      /\ do_intersect_point(mx, bbox(Self, locate(Self, "lt", mx)))

\* The elements of the sequence seq.
Range(seq) == { seq[i] : i \in 1 .. Len(seq) }

\* seq lists every element of the set S exactly once.
ListsOnce(seq, S) == Range(seq) = S /\ Len(seq) = Cardinality(S)

\* The position of x in a sequence that holds it once.
Position(seq, x) == CHOOSE i \in 1 .. Len(seq) : seq[i] = x

\* C16: the preorder traversal lists every node of the tree (reached from the
\* root) exactly once, a node after its parent, and the children of a node in
\* increasing child index.
PreorderVisitsAll ==
  LET T   == Self
      seq == traverse_preorder(T)
  IN  /\ seq[1] = root
      /\ ListsOnce(seq, TreeNodes(T))
      /\ \A n \in TreeNodes(T) \ {root} :
           Position(seq, parent(T, n)) < Position(seq, n)
      /\ \A n \in TreeNodes(T) : ~is_leaf(T, n) =>
           \A i \in 0 .. (Degree(T) - 2) :
             Position(seq, child(T, n, i)) < Position(seq, child(T, n, i + 1))

\* C16 witness: an unbalanced tree where the traversal goes from a last child
\* of depth 3 or more up to a node at least two levels above it.
PreorderJumpsUpReached ==
  LET seq == traverse_preorder(Self)
  IN  \E i \in 1 .. (Len(seq) - 1) :
        /\ depth(Self, seq[i]) >= 3
        /\ depth(Self, seq[i + 1]) + 2 <= depth(Self, seq[i])

\* The leaves among the elements of seq, in the order of seq.
LeavesOf(T, seq) == SelectSeq(seq, LAMBDA n : is_leaf(T, n))

\* C17: the leaves traversal lists every leaf of the tree (reached from the
\* root) exactly once and no other node, in the order in which the preorder
\* traversal meets them.
LeavesTraversalIsPreorderLeaves ==
  LET T   == Self
      seq == traverse_leaves(T)
  IN  /\ ListsOnce(seq, TreeLeaves(T))
      /\ seq = LeavesOf(T, traverse_preorder(T))

\* C17 witness: a tree with leaves at three depths or more, where the
\* traversal walks up from a last child and descends again to a leaf below
\* the sibling it finds.
LeavesWalkUpAndDownReached ==
  LET seq == traverse_leaves(Self)
  IN  /\ Cardinality({ depth(Self, seq[i]) : i \in 1 .. Len(seq) }) >= 3
      /\ \E i \in 1 .. (Len(seq) - 1) :
           /\ next_sibling(Self, seq[i]) = None
           /\ seq[i + 1] # next_sibling_up(Self, seq[i])

\* The nodes of the tree at depth d.
NodesAtDepth(T, d) == { n \in TreeNodes(T) : depth(T, n) = d }

\* C18: for every depth d at which the tree has a node, the level traversal
\* of depth d lists every node of depth d of the tree exactly once.
LevelTraversalVisitsLevel ==
  \A d \in 0 .. tree_depth(Self) :
    NodesAtDepth(Self, d) # {} =>
      \A r \in traverse_level(Self, d) :
        r.err = "none" /\ ListsOnce(r.seq, NodesAtDepth(Self, d))

\* C19: for a depth d beyond the deepest node, the level traversal of depth
\* d is the empty sequence, whatever the build, and fails in none.
LevelBeyondDepthIsEmpty ==
  \A d \in (tree_depth(Self) + 1) .. (tree_depth(Self) + 2) :
    \A r \in traverse_level(Self, d) : r.err = "none" /\ r.seq = << >>

\* The depth-first post-order of the subtree of n: the post-orders of the
\* children from child i on, then n.
RECURSIVE PostorderOf(_, _, _)
PostorderOf(T, n, i) ==
  IF is_leaf(T, n) \/ i = Degree(T) THEN << n >>
  ELSE PostorderOf(T, child(T, n, i), 0) \o PostorderOf(T, n, i + 1)

\* C20: the postorder traversal starts at deepest_first_child(root) and lists
\* the nodes of the tree in depth-first post-order: every node once, the
\* children of a node before the node, the root last.
PostorderVisitsChildrenFirst ==
  LET r == traverse_postorder(Self)
  IN  /\ r.err = "none"
      /\ r.seq = PostorderOf(Self, root, 0)
      /\ ListsOnce(r.seq, TreeNodes(Self))
      /\ r.seq[1] = deepest_first_child(Self, root)
      /\ r.seq[Len(r.seq)] = root

\* The tree of the shape of T built in another order: depth first, the
\* children of a node from the last to the first.  Rebuild_children splits
\* below the children i, i - 1, .., 0 of the node n of T, m being n in U.
RECURSIVE Rebuild_node(_, _, _, _)
RECURSIVE Rebuild_children(_, _, _, _, _)
Rebuild_children(T, n, U, m, i) ==
  IF i < 0 THEN U
  ELSE Rebuild_children(T, n,
                        Rebuild_node(T, child(T, n, i), U, child(U, m, i)),
                        m, i - 1)

Rebuild_node(T, n, U, m) ==
  IF is_leaf(T, n) THEN U
  ELSE Rebuild_children(T, n, split(U, m), m, Degree(T) - 1)

Rebuild(T) == Rebuild_node(T, root, FreshTree(T.dim), root)

\* The shape of a tree: the child paths of its nodes, each with the leaf flag.
RECURSIVE Shape_from(_, _, _)
Shape_from(T, n, path) ==
  IF is_leaf(T, n) THEN { << path, TRUE >> }
  ELSE { << path, FALSE >> }
       \cup UNION { Shape_from(T, child(T, n, i), Append(path, i)) :
                      i \in 0 .. (Degree(T) - 1) }

Shape(T) == Shape_from(T, root, << >>)

\* The trees the current tree is compared with: itself built in another
\* order, the tree after construction, the graded tree, and the trees with
\* one more leaf split.
ComparedTrees(T) ==
  { Rebuild(T), FreshTree(T.dim), grade(T).tree }
  \cup { split(T, l) : l \in TreeLeaves(T) }
  \cup { Rebuild(split(T, l)) : l \in TreeLeaves(T) }

\* C21: operator== of two trees over the same root box is TRUE iff they have
\* the same depth() and the same shape; it is reflexive and symmetric, and
\* TRUE of a tree and the tree of the same splits made in another order (a
\* store with blocks that no node owns is not the result of the splits of
\* its shape).
TopologyEquality ==
  LET T     == Self
      shape == Shape(T)
  IN  /\ operator_equal(T, T)
      /\ TreeNodes(T) = NodeIndices(T) => operator_equal(T, Rebuild(T))
      /\ \A U \in ComparedTrees(T) :
           LET equal == operator_equal(T, U)
           IN  /\ equal <=> (tree_depth(T) = tree_depth(U) /\ shape = Shape(U))
               /\ equal <=> operator_equal(U, T)

\* C21 witness: a tree of four blocks or more whose rebuilt copy has other
\* indices and is equal to it, while a tree of the same depth with one more
\* leaf split is not.
EqualUnderOtherIndicesReached ==
  /\ number_of_blocks(Self) >= 4
  /\ Rebuild(Self).parents # Self.parents
  /\ operator_equal(Self, Rebuild(Self))
  /\ \E l \in TreeLeaves(Self) :
       /\ tree_depth(split(Self, l)) = tree_depth(Self)
       /\ ~operator_equal(Self, split(Self, l))

\* The box with the interval [ lo, hi ] on every axis.
Cube(dim, lo, hi) == [ min |-> [ i \in 1 .. dim |-> lo ],
                       max |-> [ i \in 1 .. dim |-> hi ] ]

\* Coordinates of the query boxes: the ends and the middle of the root box,
\* and a point inside a cell of depth 5 near its first eighth.
QueryCoordinates == { 0, RootSide \div 8 + RootSide \div 64 + 1, RootSide \div 2, RootSide }

\* The queries of a tree: the cubes over the query coordinates, the box of
\* every node, and the barycenter of every internal node as a box.
Queries(T) ==
  { Cube(T.dim, c[1], c[2]) :
      c \in { d \in QueryCoordinates \X QueryCoordinates : d[1] <= d[2] } }
  \cup { bbox(T, n) : n \in TreeNodes(T) }
  \cup { [ min |-> barycenter(T, n), max |-> barycenter(T, n) ] :
           n \in { m \in TreeNodes(T) : ~is_leaf(T, m) } }

\* The nodes written, in the order of the writes.
Emitted(r) == [ k \in 1 .. Len(r.writes) |-> r.writes[k][2] ]

\* C22: for every query box, the nodes intersected_nodes writes through the
\* output iterator are, in this order, the leaves of the preorder traversal
\* whose box intersects the query, each once; and every node tested is the
\* root or the child of a node whose box intersects the query.
IntersectedNodesAreIntersectingLeaves ==
  LET T      == Self
      leaves == LeavesOf(T, traverse_preorder(T))
  IN  \A q \in Queries(T) :
        LET r == intersected_nodes(T, q, 0)
        IN  /\ Emitted(r) = SelectSeq(leaves,
                                      LAMBDA n : do_intersect_box(q, bbox(T, n)))
            /\ \A k \in 1 .. Len(r.tested) :
                 \/ r.tested[k] = root
                 \/ do_intersect_box(q, bbox(T, parent(T, r.tested[k])))

\* C22 witness: a tree three levels deep and a query that intersects three
\* leaves or more of two depths or more, and not all leaves.
PartialIntersectionReached ==
  /\ tree_depth(Self) >= 3
  /\ \E q \in Queries(Self) :
       LET e == Emitted(intersected_nodes(Self, q, 0))
       IN  /\ Len(e) >= 3
           /\ Len(e) < Cardinality(TreeLeaves(Self))
           /\ Cardinality({ depth(Self, e[k]) : k \in 1 .. Len(e) }) >= 2

\* C28: the leaves intersected_nodes emits are written at distinct positions,
\* and the position it returns is the initial position plus their number.
IntersectedNodesReturnsEnd ==
  LET T == Self
  IN  \A q \in Queries(T) : \A output \in { 0, 1 } :
        LET r == intersected_nodes(T, q, output)
        IN  /\ \A j \in 1 .. Len(r.writes) : \A k \in 1 .. Len(r.writes) :
                 j # k => r.writes[j][1] # r.writes[k][1]
            /\ r.out = output + Len(r.writes)

\* C23: after move construction the moved-from object shows a tree of one
\* node, a leaf of depth 0 without parent, with a side length table of one
\* entry (depth() = 0).
MovedFromIsSingleRoot ==
  \A m \in moved_from(OriginalHeap(Self), OriginalObject(Self)) :
    /\ number_of_nodes(m) = 1
    /\ is_leaf(m, root)
    /\ depth(m, root) = 0
    /\ parent(m, root) = None
    /\ tree_depth(m) = 0

\* The trees split, grade and refine can make of the tree T.
Mutations(T) ==
  { split(T, l) : l \in TreeLeaves(T) }
  \cup { grade(T).tree, refine(T, DepthPredicate(2, TRUE), FALSE).tree }

\* C24: the copy shows a tree equal to the original, copying changes nothing
\* of the original, and a split, grade or refine of one of the two objects
\* changes nothing of the tree the other shows.
CopyIsIndependent ==
  LET T == Self
      O == OriginalObject(T)
      c == copy_construct(OriginalHeap(T), O)
  IN  /\ View(c.heap, O) = T
      /\ operator_equal(View(c.heap, c.tree), View(c.heap, O))
      /\ View(c.heap, c.tree) = T
      /\ \A M \in Mutations(T) :
           /\ LET w == Written(c.heap, c.tree, M)
              IN  View(w.heap, w.tree) = M /\ View(w.heap, O) = T
           /\ LET w == Written(c.heap, O, M)
              IN  View(w.heap, w.tree) = M /\ View(w.heap, c.tree) = T

\* C24 witness: a tree of three blocks or more, whose copy is then graded and
\* gets more nodes than the original, which keeps its own.
CopyThenGradeReached ==
  LET T == Self
      O == OriginalObject(T)
      c == copy_construct(OriginalHeap(T), O)
      w == Written(c.heap, c.tree, grade(View(c.heap, c.tree)).tree)
  IN  /\ err = "none"
      /\ number_of_blocks(T) >= 3
      /\ number_of_nodes(View(w.heap, w.tree)) > number_of_nodes(T)
      /\ number_of_nodes(View(w.heap, O)) = number_of_nodes(T)

\* C25: with the preconditions compiled in, child(n, i) is rejected when n is
\* a leaf and when i >= 2^D, and an index it returns lies in the block of
\* children of n.
ChildRejectsBadIndex ==
  checks =>
    \A n \in NodeIndices(Self) : \A i \in 0 .. (Degree(Self) + 1) :
      \A o \in child_call(Self, n, i, checks) :
        /\ (is_leaf(Self, n) \/ i >= Degree(Self)) => o.err = "InvalidChildAccess"
        /\ o.err = "none" =>
             /\ o.index >= Self.children[n + 1]
             /\ o.index < Self.children[n + 1] + Degree(Self)

\* The points located in a tree: the min and max corners of the box of every
\* node and the barycenter of every internal node.
LocatedPoints(T) ==
  { bbox(T, n).min : n \in TreeNodes(T) } \cup { bbox(T, n).max : n \in TreeNodes(T) }
  \cup { barycenter(T, n) : n \in { m \in TreeNodes(T) : ~is_leaf(T, m) } }

\* the calls of a set whose precondition does not hold
Failed(calls) == { c \in calls : ~c.ok }

\* C26: on a tree built by splitting leaves, adjacent_node(n, dir) with
\* dir < 2*D, locate(p) with p in the box of the root, the Preorder and
\* Leaves traversals and grade() call parent() on no root, child() on no
\* leaf, split() on no internal node and read no empty optional;
\* adjacent_node returns nothing or a node other than the root and n, and
\* next_sibling nothing or a node other than the root and n.
NoInternalFailure ==
  TreeNodes(Self) = NodeIndices(Self) =>
    /\ \A n \in NodeIndices(Self) : \A dir \in 0 .. (2 * D - 1) :
         /\ Failed(adjacent_node_calls(Self, n, dir)) = {}
         /\ adjacent_node(Self, n, dir) \in ({None} \cup NodeIndices(Self)) \ {root, n}
    /\ \A n \in NodeIndices(Self) :
         /\ Failed(next_sibling_calls(Self, n)) = {}
         /\ Failed(next_sibling_up_calls(Self, n)) = {}
         /\ next_sibling(Self, n) \in ({None} \cup NodeIndices(Self)) \ {root, n}
    /\ Failed(traverse_preorder_calls(Self)) = {}
    /\ Failed(traverse_leaves_calls(Self)) = {}
    /\ \A h \in HalfspaceKinds : \A p \in LocatedPoints(Self) :
         do_intersect_point(p, bbox(Self, root)) =>
           Failed(locate_calls(Self, h, p)) = {}
    /\ LET graded == grade_calls(Self)
       IN  graded.tree = grade(Self).tree /\ Failed(graded.calls) = {}

\* C26 witness: a tree built by splitting leaves in which grade() splits a
\* neighbour, a node has no neighbour in some direction, and a neighbour is
\* found by descending into the neighbour of the parent.
GradeCallsSplitReached ==
  /\ TreeNodes(Self) = NodeIndices(Self)
  /\ \E c \in grade_calls(Self).calls : c.fn = "split" /\ c.ok
  /\ \E n \in NodeIndices(Self) \ {root} : \E dir \in 0 .. (2 * D - 1) :
       adjacent_node(Self, n, dir) = None
  /\ \E n \in NodeIndices(Self) \ {root} : \E dir \in 0 .. (2 * D - 1) :
       LET a == adjacent_node(Self, n, dir)
       IN  a # None /\ parent(Self, a) # parent(Self, n)
             /\ depth(Self, a) = depth(Self, n)

\* C27: the directions grade() examines for a leaf are the 2*D directions
\* (both signs of every axis), each exactly once, all below 2*D.
GradeExaminesEveryDirectionOnce ==
  LET seq == grade_examined_directions(Self)
  IN  /\ \A k \in 1 .. Len(seq) : seq[k] < 2 * D
      /\ ListsOnce(seq, Directions(Self))

\* C29: grade() changes nothing of a tree that a call of grade() has made
\* (of a tree built by splitting leaves).
GradeIsIdempotent ==
  (lastOp = "grade" /\ TreeNodes(Self) = NodeIndices(Self))
    => grade(Self).tree = Self

\* The number of parent links from n to the root.
RECURSIVE StepsToRoot(_, _)
StepsToRoot(T, n) == IF is_root(n) THEN 0 ELSE 1 + StepsToRoot(T, parent(T, n))

\* C30: every node n of the store but the root has a parent of a smaller
\* index, is depth(n) parent links away from the root, and is the child of
\* its parent at its own local coordinates.
IndexOrderAndRoundTrip ==
  \A n \in NodeIndices(Self) \ {root} :
    /\ parent(Self, n) # None
    /\ parent(Self, n) < n
    /\ StepsToRoot(Self, n) = depth(Self, n)
    /\ child(Self, parent(Self, n), to_ulong(local_coordinates(Self, n))) = n

====
